---- MODULE Spec2Model ----
(***************************************************************************)
(* dynamic_search (src/main.rs): a redirect service that maps a raw query  *)
(* to a search engine and a remainder ("bang" shortcuts, SSID-based        *)
(* default), and redirects to the engine's URL template.                   *)
(*                                                                         *)
(* A Rust str is modelled as what it is: its sequence of UTF-8 bytes.      *)
(* query.len() and &query[a..b] work on bytes, query.chars() on the        *)
(* decoded code points.                                                    *)
(***************************************************************************)
EXTENDS Integers, Sequences, FiniteSets, TLC

\* ------------------------------------------------------------------ bounds

\* Every query of at most MaxLen characters over Alphabet is an input.
MaxLen == 4
\* Every iwgetid output of at most MaxSsidLen bytes over SsidAlphabet is an input.
MaxSsidLen == 5
\* Requests in flight at once in the concurrent specification.
NReq == 2

\* ------------------------------------------------------- str, chars, bytes

\* The UTF-8 bytes of one code point.
Utf8(cp) ==
    IF cp < 128 THEN <<cp>>
    ELSE IF cp < 2048 THEN <<192 + (cp \div 64), 128 + (cp % 64)>>
    ELSE IF cp < 65536
    THEN <<224 + (cp \div 4096), 128 + ((cp \div 64) % 64), 128 + (cp % 64)>>
    ELSE <<240 + (cp \div 262144), 128 + ((cp \div 4096) % 64),
           128 + ((cp \div 64) % 64), 128 + (cp % 64)>>

RECURSIVE Str(_)
\* The str holding the code points cps.
Str(cps) == IF cps = <<>> THEN <<>> ELSE Utf8(Head(cps)) \o Str(Tail(cps))

\* Bytes a UTF-8 sequence takes, by its leading byte (0: not a leading byte).
Utf8Width(b) ==
    IF b < 128 THEN 1
    ELSE IF b >= 194 /\ b < 224 THEN 2
    ELSE IF b >= 224 /\ b < 240 THEN 3
    ELSE IF b >= 240 /\ b < 245 THEN 4
    ELSE 0

IsContinuation(b) == b >= 128 /\ b < 192

\* The second byte of a sequence led by b1: no overlong form, no surrogate,
\* nothing above U+10FFFF.
SecondByteOk(b1, b2) ==
    /\ IsContinuation(b2)
    /\ b1 = 224 => b2 >= 160
    /\ b1 = 237 => b2 < 160
    /\ b1 = 240 => b2 >= 144
    /\ b1 = 244 => b2 < 144

RECURSIVE from_utf8_ok(_)
\* String::from_utf8(bytes).is_ok()
from_utf8_ok(bytes) ==
    IF bytes = <<>> THEN TRUE
    ELSE LET w == Utf8Width(Head(bytes)) IN
         /\ w > 0
         /\ Len(bytes) >= w
         /\ w >= 2 => SecondByteOk(bytes[1], bytes[2])
         /\ \A i \in 3..w : IsContinuation(bytes[i])
         /\ from_utf8_ok(SubSeq(bytes, w + 1, Len(bytes)))

\* The code point of the UTF-8 sequence starting s.
DecodeFirst(s) ==
    LET w == Utf8Width(s[1]) IN
    IF w = 1 THEN s[1]
    ELSE IF w = 2 THEN (s[1] - 192) * 64 + (s[2] - 128)
    ELSE IF w = 3 THEN (s[1] - 224) * 4096 + (s[2] - 128) * 64 + (s[3] - 128)
    ELSE (s[1] - 240) * 262144 + (s[2] - 128) * 4096 + (s[3] - 128) * 64 + (s[4] - 128)

RECURSIVE chars(_)
\* query.chars(): the code points of a str.
chars(s) ==
    IF s = <<>> THEN <<>>
    ELSE <<DecodeFirst(s)>> \o chars(SubSeq(s, Utf8Width(s[1]) + 1, Len(s)))

\* char::is_whitespace: the Unicode White_Space code points.
is_whitespace(c) ==
    \/ c >= 9 /\ c <= 13
    \/ c \in {32, 133, 160, 5760, 8232, 8233, 8239, 8287, 12288}
    \/ c >= 8192 /\ c <= 8202

\* str::is_char_boundary(i), i a byte offset.
is_char_boundary(s, i) ==
    \/ i = 0
    \/ i = Len(s)
    \/ i < Len(s) /\ ~IsContinuation(s[i + 1])

\* &s[a..b]: panics unless a <= b <= len and both are char boundaries.
Slice(s, a, b) ==
    IF a <= b /\ b <= Len(s) /\ is_char_boundary(s, a) /\ is_char_boundary(s, b)
    THEN [panic |-> FALSE, val |-> SubSeq(s, a + 1, b)]
    ELSE [panic |-> TRUE, val |-> <<>>]

\* &s[a..]
SliceFrom(s, a) == Slice(s, a, Len(s))

\* ----------------------------------------------------------------- engines

\* SearchEngine { search_url, suggest_url }. A template is its text split at the
\* placeholder: the literal pieces and the "{searchTerms}" token between them.
SearchEngine(search, suggest) == [search_url |-> search, suggest_url |-> suggest]

placeholder == "{searchTerms}"

DEFAULT_SUGGEST == <<"https://duckduckgo.com/ac/?q=", placeholder, "&type=list">>

GOOGLE ==
    SearchEngine(<<"https://www.google.com/search?hl=en&q=", placeholder, "">>,
                 <<"https://www.google.com/complete/search?hl=en&client=firefox&q=",
                   placeholder, "">>)

DUCKDUCKGO ==
    SearchEngine(<<"https://duckduckgo.com/?q=", placeholder, "">>,
                 <<"https://duckduckgo.com/ac/?q=", placeholder, "&type=list">>)

WIKIPEDIA ==
    SearchEngine(<<"https://en.wikipedia.org/w/index.php?title=Special:Search&search=",
                   placeholder, "">>,
                 <<"https://en.wikipedia.org/w/api.php?action=opensearch&search=",
                   placeholder, "&namespace=0">>)

NWS ==
    SearchEngine(<<"https://forecast.weather.gov/zipcity.php?inputstring=",
                   placeholder, "">>,
                 DEFAULT_SUGGEST)

CPP ==
    SearchEngine(<<"https://en.cppreference.com/mwiki/index.php?search=", placeholder, "">>,
                 DEFAULT_SUGGEST)

RUST ==
    SearchEngine(<<"https://doc.rust-lang.org/std/?search=", placeholder, "">>,
                 DEFAULT_SUGGEST)

CRATES ==
    SearchEngine(<<"https://crates.io/search?q=", placeholder, "">>, DEFAULT_SUGGEST)

\* The value an engine-typed local holds before it is assigned.
NoEngine == SearchEngine(<<>>, <<>>)

\* The bang keywords, as strs: "g", "ddg", "w", "nws", "cpp", "rust", "crates".
Key_g == <<103>>
Key_ddg == <<100, 100, 103>>
Key_w == <<119>>
Key_nws == <<110, 119, 115>>
Key_cpp == <<99, 112, 112>>
Key_rust == <<114, 117, 115, 116>>
Key_crates == <<99, 114, 97, 116, 101, 115>>

\* The HashMap the lazy_static initializer builds.
SEARCH_ENGINES ==
    (Key_g :> GOOGLE) @@ (Key_ddg :> DUCKDUCKGO) @@ (Key_w :> WIKIPEDIA)
    @@ (Key_nws :> NWS) @@ (Key_cpp :> CPP) @@ (Key_rust :> RUST)
    @@ (Key_crates :> CRATES)

\* The lazy_static cell: empty until the first dereference runs the initializer.
Uninitialized == [init |-> FALSE, map |-> <<>>]

\* Dereferencing the cell: the initializer runs once, later uses read the map.
Deref(cell) == IF cell.init THEN cell ELSE [init |-> TRUE, map |-> SEARCH_ENGINES]

\* HashMap::get: Some(engine) (found) or None.
MapGet(map, key) ==
    IF key \in DOMAIN map
    THEN [found |-> TRUE, engine |-> map[key]]
    ELSE [found |-> FALSE, engine |-> NoEngine]

\* ------------------------------------------------------------- base engine

\* What running `iwgetid -r` gives: the spawn fails, or it runs and prints stdout
\* (any bytes, with any exit status).
SpawnFails == [spawned |-> FALSE, stdout |-> <<>>]
Prints(bytes) == [spawned |-> TRUE, stdout |-> bytes]

\* get_ssid(): Some(stdout as a String), None when the spawn fails or stdout is
\* not UTF-8.
get_ssid(out) ==
    IF out.spawned /\ from_utf8_ok(out.stdout)
    THEN [some |-> TRUE, ssid |-> out.stdout]
    ELSE [some |-> FALSE, ssid |-> <<>>]

\* "BVSD"
Marker == <<66, 86, 83, 68>>

\* A scan that looks at the start of s only.
starts_with(s, pat) == Len(s) >= Len(pat) /\ SubSeq(s, 1, Len(pat)) = pat

RECURSIVE contains(_, _)
\* str::contains(pat): a scan for pat from each position on.
contains(s, pat) ==
    IF Len(s) < Len(pat) THEN FALSE
    ELSE IF SubSeq(s, 1, Len(pat)) = pat THEN TRUE
    ELSE contains(Tail(s), pat)

\* base_engine(), given what the SSID lookup gives.
base_engine(out) ==
    LET ssid == get_ssid(out) IN
    IF ~ssid.some THEN DUCKDUCKGO
    ELSE IF contains(ssid.ssid, Marker) THEN GOOGLE
    ELSE DUCKDUCKGO

\* get_bang_suggester(): Some(DUCKDUCKGO).
get_bang_suggester == [some |-> TRUE, engine |-> DUCKDUCKGO]

\* -------------------------------------------------------------- get_engine

\* A bang test that leaves the first char out.
IsBangNonEmpty(query) == Len(query) >= 1

\* The test of a bang command: a non-empty query whose first char is '!'.
IsBang(query) == Len(query) >= 1 /\ Head(chars(query)) = 33

RECURSIVE ScanLoop(_, _)
\* The for loop over query.chars(): index counts the chars consumed, and the loop
\* breaks after counting the first whitespace char.
ScanLoop(cs, index) ==
    IF cs = <<>> THEN index
    ELSE IF is_whitespace(Head(cs)) THEN index + 1
    ELSE ScanLoop(Tail(cs), index + 1)

ScanIndex(query) == ScanLoop(chars(query), 0)

\* let bang = &query[1..index-1]: a count of chars used as a byte offset.
BangSlice(query) == Slice(query, 1, ScanIndex(query) - 1)

\* if bang.len() + 2 <= query.len()
HasRoom(bang, query) == Len(bang) + 2 <= Len(query)

\* A remainder that starts one byte early, at the separating space.
RemainderFromSpace(query, bang) == SliceFrom(query, Len(bang) + 1)

\* &query[bang.len() + 2..]
Remainder(query, bang) == SliceFrom(query, Len(bang) + 2)

\* -------------------------------------------------------------- format_url

\* A hexadecimal digit (upper case), as a byte.
HexDigit(n) == IF n < 10 THEN 48 + n ELSE 55 + n

\* Bytes urlencoding::encode keeps: ASCII letters and digits, '-', '.', '_', '~'.
Unreserved(b) ==
    \/ b >= 48 /\ b <= 57
    \/ b >= 65 /\ b <= 90
    \/ b >= 97 /\ b <= 122
    \/ b \in {45, 46, 95, 126}

RECURSIVE encode(_)
\* urlencoding::encode: every other byte becomes %XX.
encode(s) ==
    IF s = <<>> THEN <<>>
    ELSE (IF Unreserved(Head(s)) THEN <<Head(s)>>
          ELSE <<37, HexDigit(Head(s) \div 16), HexDigit(Head(s) % 16)>>)
         \o encode(Tail(s))

\* format.replace("{searchTerms}", &encode(q)): every placeholder token becomes
\* the encoded text.
format_url(q, format) ==
    [i \in DOMAIN format |-> IF format[i] = placeholder THEN encode(q) ELSE format[i]]

\* ------------------------------------------------------------------ inputs

\* All sequences over S of length at most n.
SeqsUpTo(S, n) == UNION {[1..k -> S] : k \in 0..n}

\* '!', ' ', 'g', 'x', U+00E9 (two bytes, not whitespace).
Alphabet == {33, 32, 103, 120, 233}

\* Candidate keywords: the registered ones, and "", "G", "gg", "ddgx", "wx",
\* U+00E9, "g" U+00E9.
Keywords ==
    DOMAIN SEARCH_ENGINES
    \cup {<<>>, <<71>>, <<103, 103>>, <<100, 100, 103, 120>>, <<119, 120>>,
          Str(<<233>>), Str(<<103, 233>>)}

\* What follows the keyword: nothing, ' ', TAB, U+00A0, U+2003.
Separators == {<<>>, <<32>>, <<9>>, Str(<<160>>), Str(<<8195>>)}

\* Trailing text: "", "x", "c+ v", U+00E9, " x".
Trailers == {<<>>, <<120>>, <<99, 43, 32, 118>>, Str(<<233>>), <<32, 120>>}

\* The q of a request: every short str over Alphabet, and every
\* [!]keyword[separator][trailer].
Queries ==
    {Str(cps) : cps \in SeqsUpTo(Alphabet, MaxLen)}
    \cup {p \o k \o s \o t :
            p \in {<<>>, <<33>>}, k \in Keywords, s \in Separators, t \in Trailers}

\* A few queries: "", "g x", "!g x", "!w", "!g ", "!x y", "!" U+00E9 " x".
FewQueries ==
    {<<>>, <<103, 32, 120>>, <<33, 103, 32, 120>>, <<33, 119>>, <<33, 103, 32>>,
     <<33, 120, 32, 121>>, <<33>> \o Str(<<233>>) \o <<32, 120>>}

\* The queries of concurrent requests: "g x", "!g x", "!", "!gg".
ConcQueries ==
    {<<103, 32, 120>>, <<33, 103, 32, 120>>, <<33>>, <<33, 103, 103>>}

\* 'B', 'V', 'S', 'D'
SsidAlphabet == {66, 86, 83, 68}

\* What iwgetid may give: no spawn, any short output over SsidAlphabet, and
\* "BVSD\n", "home\n", "xBVSDx", output with a byte that is not UTF-8 before or
\* after the marker, a truncated two-byte sequence, an overlong form, and
\* U+00E9 or U+1F4F6 before the marker.
Lookups ==
    {SpawnFails}
    \cup {Prints(b) : b \in SeqsUpTo(SsidAlphabet, MaxSsidLen)}
    \cup {Prints(Marker \o <<10>>), Prints(<<104, 111, 109, 101, 10>>),
          Prints(<<120>> \o Marker \o <<120>>), Prints(<<255>> \o Marker),
          Prints(Marker \o <<255>>), Prints(Marker \o <<195>>),
          Prints(<<224, 128, 128>> \o Marker), Prints(Str(<<233>>) \o Marker),
          Prints(Str(<<128246>>) \o Marker)}

\* A few of them: no spawn, not UTF-8, "BVSD\n", "home\n".
FewLookups ==
    {SpawnFails, Prints(<<255>> \o Marker), Prints(Marker \o <<10>>),
     Prints(<<104, 111, 109, 101, 10>>)}

\* The networks of concurrent requests: no spawn, "BVSD\n".
ConcLookups == {SpawnFails, Prints(Marker \o <<10>>)}

\* ------------------------------------------------------------------- state

Procs == 1..NReq

VARIABLES
    cell,   \* the SEARCH_ENGINES lazy_static cell
    net,    \* what `iwgetid -r` gives when run now
    req     \* per request slot: the handler's position and locals

vars == <<cell, net, req>>

NotLooked == [looked |-> FALSE, out |-> SpawnFails]
Looked(out) == [looked |-> TRUE, out |-> out]

NoResponse == [status |-> "none", target |-> <<>>]
Redirect(url) == [status |-> "redirect", target |-> url]
\* The handler panicked: the request is aborted (Rocket answers 500).
Panicked == [status |-> "panic", target |-> <<>>]

Idle ==
    [pc |-> "idle", kind |-> "none", q |-> <<>>, bang |-> <<>>, engine |-> NoEngine,
     rem |-> <<>>, seen |-> NotLooked, resp |-> NoResponse]

InitWith(lookups) ==
    /\ cell = Uninitialized
    /\ net \in lookups
    /\ req = [r \in Procs |-> Idle]

\* ----------------------------------------------------------------- actions

\* A GET /search?q= or GET /suggest?q= request is routed to its handler, which
\* calls get_engine(q).
Receive(r, queries) ==
    /\ req[r].pc = "idle"
    /\ \E kind \in {"search", "suggest"}, q \in queries :
         req' = [req EXCEPT ![r] = [Idle EXCEPT !.pc = "get_engine", !.kind = kind, !.q = q]]
    /\ UNCHANGED <<cell, net>>

\* get_engine up to the lookup: the bang test, the scan and the slice of the keyword.
GetEngineScan(r) ==
    /\ req[r].pc = "get_engine"
    /\ LET query == req[r].q
           bang == BangSlice(query) IN
       req' = [req EXCEPT ![r] =
                 IF ~IsBang(query) THEN [@ EXCEPT !.pc = "base"]
                 ELSE IF bang.panic THEN [@ EXCEPT !.pc = "done", !.resp = Panicked]
                 ELSE [@ EXCEPT !.pc = "lookup", !.bang = bang.val]]
    /\ UNCHANGED <<cell, net>>

\* match SEARCH_ENGINES.get(bang): the first use initializes the map; a hit with
\* room returns (engine, rest), everything else falls to the last line.
GetEngineLookup(r) ==
    /\ req[r].pc = "lookup"
    /\ cell' = Deref(cell)
    /\ LET query == req[r].q
           bang == req[r].bang
           hit == MapGet(cell'.map, bang)
           rest == Remainder(query, bang) IN
       req' = [req EXCEPT ![r] =
                 IF hit.found /\ HasRoom(bang, query)
                 THEN IF rest.panic THEN [@ EXCEPT !.pc = "done", !.resp = Panicked]
                      ELSE [@ EXCEPT !.pc = "respond", !.engine = hit.engine,
                                     !.rem = rest.val]
                 ELSE [@ EXCEPT !.pc = "base"]]
    /\ UNCHANGED net

\* The fallback with its result in a static all handlers share.
GetEngineBaseShared(r) ==
    /\ req[r].pc = "base"
    /\ req' = [p \in Procs |->
                 IF p = r
                 THEN [req[p] EXCEPT !.pc = "respond", !.seen = Looked(net),
                                     !.engine = base_engine(net), !.rem = req[r].q]
                 ELSE [req[p] EXCEPT !.engine = base_engine(net)]]
    /\ UNCHANGED <<cell, net>>

\* (base_engine(), query): the SSID lookup runs now.
GetEngineBase(r) ==
    /\ req[r].pc = "base"
    /\ req' = [req EXCEPT ![r] = [@ EXCEPT !.pc = "respond", !.seen = Looked(net),
                                           !.engine = base_engine(net),
                                           !.rem = req[r].q]]
    /\ UNCHANGED <<cell, net>>

\* search: Redirect::to(format_url(new_query, engine.search_url))
SearchTarget(q, engine, new_query) == format_url(new_query, engine.search_url)

\* suggest: the bang suggester replaces the engine when new_query != q.
SuggestEngine(q, engine, new_query) ==
    IF new_query # q
    THEN (IF get_bang_suggester.some THEN get_bang_suggester.engine ELSE engine)
    ELSE engine

\* suggest: Redirect::to(format_url(q, engine.suggest_url))
SuggestTarget(q, engine, new_query) ==
    format_url(q, SuggestEngine(q, engine, new_query).suggest_url)

Search(r) ==
    /\ req[r].pc = "respond"
    /\ req[r].kind = "search"
    /\ LET cur == req[r] IN
       req' = [req EXCEPT ![r] =
                 [@ EXCEPT !.pc = "done",
                           !.resp = Redirect(SearchTarget(cur.q, cur.engine, cur.rem))]]
    /\ UNCHANGED <<cell, net>>

Suggest(r) ==
    /\ req[r].pc = "respond"
    /\ req[r].kind = "suggest"
    /\ LET cur == req[r] IN
       req' = [req EXCEPT ![r] =
                 [@ EXCEPT !.pc = "done",
                           !.resp = Redirect(SuggestTarget(cur.q, cur.engine, cur.rem))]]
    /\ UNCHANGED <<cell, net>>

\* The response is sent; the slot serves the next request.
Finish(r) ==
    /\ req[r].pc = "done"
    /\ req' = [req EXCEPT ![r] = Idle]
    /\ UNCHANGED <<cell, net>>

\* The machine joins, leaves or changes its wireless network.
NetworkChange(lookups) ==
    /\ net' \in lookups \ {net}
    /\ UNCHANGED <<cell, req>>

Handle(r) ==
    \/ GetEngineScan(r)
    \/ GetEngineLookup(r)
    \/ GetEngineBase(r)
    \/ Search(r)
    \/ Suggest(r)
    \/ Finish(r)

\* ---------------------------------------------------------- specifications

\* One request at a time, every query, a few networks.
Init == InitWith(FewLookups)

Next ==
    \/ Receive(1, Queries)
    \/ Handle(1)
    \/ NetworkChange(FewLookups)

Spec == Init /\ [][Next]_vars

\* One request at a time on a fixed network, every network, a few queries.
InitNet == InitWith(Lookups)

NextNet ==
    \/ Receive(1, FewQueries)
    \/ Handle(1)

SpecNet == InitNet /\ [][NextNet]_vars

\* Requests served concurrently, their steps interleaved in any order.
InitConc == InitWith(ConcLookups)

NextConc ==
    \/ \E r \in Procs : Receive(r, ConcQueries) \/ Handle(r)
    \/ NetworkChange(ConcLookups)

SpecConc == InitConc /\ [][NextConc]_vars

\* ------------------------------------------------------------------ claims

\* get_engine(q) of request r returned (engine, rem).
Returned(r) == req[r].pc \in {"respond", "done"} /\ req[r].resp.status # "panic"

\* get_engine(q) of request r panicked.
Aborted(r) == req[r].resp.status = "panic"

\* The call of get_engine(q) of request r is over.
Called(r) == Returned(r) \/ Aborted(r)

\* get_engine(q) of request r returned (base_engine(), q).
ReturnedDefault(r) ==
    /\ Returned(r)
    /\ req[r].seen.looked
    /\ req[r].engine = base_engine(req[r].seen.out)
    /\ req[r].rem = req[r].q

\* s starts with pre.
StartsWith(s, pre) == Len(s) >= Len(pre) /\ SubSeq(s, 1, Len(pre)) = pre

\* C1: for a registered bang b and a non-empty r, get_engine("!" b " " r) returns
\* (the engine registered under b, r), on every network.
C1_RegisteredBang ==
    \A r \in Procs, b \in DOMAIN SEARCH_ENGINES :
        LET q == req[r].q
            pre == <<33>> \o b \o <<32>> IN
        (Called(r) /\ StartsWith(q, pre) /\ Len(q) > Len(pre))
            => /\ Returned(r)
               /\ req[r].engine = SEARCH_ENGINES[b]
               /\ req[r].rem = SubSeq(q, Len(pre) + 1, Len(q))

\* "!rust " U+00E9 was resolved on the network "BVSD\n".
C1_Witness ==
    \E r \in Procs :
        /\ req[r].pc = "done"
        /\ Returned(r)
        /\ req[r].q = <<33>> \o Key_rust \o <<32>> \o Str(<<233>>)
        /\ req[r].engine = RUST
        /\ net = Prints(Marker \o <<10>>)

\* C2: for a query q that does not start with '!' (the empty one too),
\* get_engine(q) returns (base_engine(), q).
C2_NoBang ==
    \A r \in Procs :
        (Called(r) /\ ~StartsWith(req[r].q, <<33>>)) => ReturnedDefault(r)

\* "gg x" was resolved to GOOGLE by the network.
C2_Witness ==
    \E r \in Procs :
        /\ Returned(r)
        /\ req[r].q = <<103, 103, 32, 120>>
        /\ req[r].engine = GOOGLE

\* q is '!' followed by one or more chars, none of them whitespace.
BangTokenOnly(q) ==
    LET cs == chars(q) IN
    /\ Len(cs) >= 2
    /\ cs[1] = 33
    /\ \A i \in 2..Len(cs) : ~is_whitespace(cs[i])

\* C3: for a query made only of '!' and non-whitespace chars, get_engine
\* returns (base_engine(), query).
C3_BangTokenOnly ==
    \A r \in Procs :
        (Called(r) /\ BangTokenOnly(req[r].q)) => ReturnedDefault(r)

\* C4: get_engine never fails: every call returns a pair.
C4_NeverFails == \A r \in Procs : ~Aborted(r)

\* C5: an engine found through a bang lookup comes with a non-empty remainder,
\* and a registered bang followed only by its space gives (base_engine(), query).
C5_NonEmptyRemainder ==
    /\ \A r \in Procs :
         (Returned(r) /\ ~req[r].seen.looked) => Len(req[r].rem) >= 1
    /\ \A r \in Procs, b \in DOMAIN SEARCH_ENGINES :
         (Called(r) /\ req[r].q = <<33>> \o b \o <<32>>) => ReturnedDefault(r)

\* q is "!" x " " t for a keyword x of non-whitespace chars that is not registered.
UnregisteredBang(q) ==
    LET cs == chars(q) IN
    /\ Len(cs) >= 2
    /\ cs[1] = 33
    /\ \E n \in 2..Len(cs) :
         /\ cs[n] = 32
         /\ \A i \in 2..(n - 1) : ~is_whitespace(cs[i])
         /\ Str(SubSeq(cs, 2, n - 1)) \notin DOMAIN SEARCH_ENGINES

\* C6: for an unregistered keyword x and any text t, get_engine("!" x " " t)
\* returns (base_engine(), the whole string).
C6_UnregisteredBang ==
    \A r \in Procs :
        (Called(r) /\ UnregisteredBang(req[r].q)) => ReturnedDefault(r)

\* The SSID lookup gave a String that contains "BVSD".
OnMarkedNetwork(out) ==
    /\ out.spawned
    /\ from_utf8_ok(out.stdout)
    /\ \E i \in 1..Len(out.stdout) :
         i + 3 <= Len(out.stdout) /\ SubSeq(out.stdout, i, i + 3) = Marker

\* C7: base_engine returns GOOGLE exactly when the lookup succeeds with an SSID
\* that contains "BVSD", DUCKDUCKGO in every other case, and a failed lookup
\* never aborts the request.
C7_BaseEngine ==
    \A r \in Procs :
        req[r].seen.looked
            => /\ req[r].engine =
                    (IF OnMarkedNetwork(req[r].seen.out) THEN GOOGLE ELSE DUCKDUCKGO)
               /\ ~Aborted(r)

\* A request got GOOGLE on "BBVSD", where the marker is not at the start.
C7_Witness ==
    \E r \in Procs :
        /\ req[r].pc = "done"
        /\ req[r].seen = Looked(Prints(<<66>> \o Marker))
        /\ req[r].engine = GOOGLE

\* The engine the suggest handler is said to use.
SuggestEngineClaimed(r) ==
    IF req[r].rem # req[r].q THEN DUCKDUCKGO ELSE req[r].engine

\* What C8 says of a suggest request whose get_engine call returned.
SuggestAsClaimed(r) ==
    /\ req[r].resp = Redirect(format_url(req[r].q, SuggestEngineClaimed(r).suggest_url))
    /\ (req[r].rem # req[r].q) <=> ~req[r].seen.looked

\* C8: for every query q the suggest handler redirects to
\* format_url(q, E.suggest_url), E being DUCKDUCKGO exactly when a bang was
\* stripped (which is exactly when a bang lookup succeeded).
C8_Suggest ==
    \A r \in Procs :
        (req[r].pc = "done" /\ req[r].kind = "suggest")
            => Returned(r) /\ SuggestAsClaimed(r)

\* C8, of the requests that are not aborted only: the target is the claimed one.
C8_SuggestWhenReturned ==
    \A r \in Procs :
        (req[r].pc = "done" /\ req[r].kind = "suggest" /\ Returned(r))
            => SuggestAsClaimed(r)

\* What C9 says of a search request whose get_engine call returned: the
\* engine's search_url with its one placeholder replaced by the encoded remainder.
SearchAsClaimed(r) ==
    LET url == req[r].engine.search_url IN
    /\ Cardinality({i \in DOMAIN url : url[i] = placeholder}) = 1
    /\ req[r].resp =
         Redirect([i \in DOMAIN url |->
                     IF url[i] = placeholder THEN encode(req[r].rem) ELSE url[i]])

\* C9: for every query q the search handler redirects to the search_url of the
\* engine get_engine returned, with the percent-encoded remainder in it.
C9_Search ==
    \A r \in Procs :
        (req[r].pc = "done" /\ req[r].kind = "search")
            => Returned(r) /\ SearchAsClaimed(r)

\* C9, of the requests that are not aborted only: the target is the claimed one.
C9_SearchWhenReturned ==
    \A r \in Procs :
        (req[r].pc = "done" /\ req[r].kind = "search" /\ Returned(r))
            => SearchAsClaimed(r)

\* What get_engine(q) gives when nothing else runs, on the network `out`.
GetEngineAlone(q, out) ==
    LET default == [panic |-> FALSE, engine |-> base_engine(out), rem |-> q]
        abort == [panic |-> TRUE, engine |-> NoEngine, rem |-> <<>>]
        bang == BangSlice(q)
        hit == MapGet(SEARCH_ENGINES, bang.val)
        rest == Remainder(q, bang.val) IN
    IF ~IsBang(q) THEN default
    ELSE IF bang.panic THEN abort
    ELSE IF hit.found /\ HasRoom(bang.val, q)
         THEN (IF rest.panic THEN abort
               ELSE [panic |-> FALSE, engine |-> hit.engine, rem |-> rest.val])
    ELSE default

\* What a request yields when it is handled alone, on the network `out`.
HandledAlone(kind, q, out) ==
    LET got == GetEngineAlone(q, out) IN
    IF got.panic THEN Panicked
    ELSE IF kind = "search" THEN Redirect(SearchTarget(q, got.engine, got.rem))
    ELSE Redirect(SuggestTarget(q, got.engine, got.rem))

\* C10: with requests interleaved in any order, SEARCH_ENGINES is never modified
\* once initialized, and every request yields what it would yield handled alone
\* on the network it observed.
C10_Stateless ==
    /\ cell \in {Uninitialized, [init |-> TRUE, map |-> SEARCH_ENGINES]}
    /\ \A r \in Procs :
         req[r].pc = "done"
            => req[r].resp = HandledAlone(req[r].kind, req[r].q, req[r].seen.out)

\* Two requests are answered at once: a search whose bang was stripped, and a
\* suggest that fell back to the default on "BVSD\n", after the network was lost.
C10_Witness ==
    \E r1, r2 \in Procs :
        /\ r1 # r2
        /\ req[r1].pc = "done" /\ req[r1].kind = "search"
        /\ req[r1].q = <<33, 103, 32, 120>> /\ req[r1].engine = GOOGLE
        /\ req[r2].pc = "done" /\ req[r2].kind = "suggest"
        /\ req[r2].seen = Looked(Prints(Marker \o <<10>>))
        /\ net = SpawnFails

====
